---- MODULE Spec2Model ----
(***************************************************************************)
(* Iron's middleware Chain (src/src/middleware.rs): the ChainBuilder, its  *)
(* builder operations and the dispatch of one request through the          *)
(* BeforeMiddleware, the Handler and the AfterMiddleware, with the error   *)
(* propagation of helpers::run_befores / run_afters / run_handler_catch.   *)
(*                                                                         *)
(* Stage indices are 0-based as in the source; the k-th element of a Vec   *)
(* is befores[k + 1] in the sequences below.                               *)
(***************************************************************************)
EXTENDS Integers, Sequences, FiniteSets, TLC

\* ---------------------------------------------------------------- bounds
\* longest before-list and after-list
MaxStages == 2
\* deepest nesting of AroundMiddleware around the first handler
MaxWraps == 2
\* stage and handler operations run by one dispatch before the model stops it
MaxSteps == 8
\* operations run by two dispatches sharing a Chain, taken together
MaxStepsShared == 5

\* ---------------------------------------------------------------- values
\* Box<Error + Send>: opaque error values
Errors == {"E1", "E2"}
\* Option::None of an Option<Box<Error + Send>>
None == "None"
\* Ok(()) of an IronResult<()>
OkUnit == "Ok"

\* the statuses a Response can carry that the Chain can tell apart
Statuses == {"Ok", "InternalServerError"}
\* Response: who produced it and with which status
Response(origin, status) == [origin |-> origin, status |-> status]
\* no Response exists (yet)
NoResponse == Response("none", "none")
\* Response::status(status::InternalServerError) built by ChainBuilder::catch
ChainInternalError == Response("chain.catch", "InternalServerError")

\* the middleware and handlers a program can hand to the builder
BeforeIds == {"B1", "B2"}
AfterIds == {"A1", "A2"}
\* "H": a Handler overriding catch, "F": a bare fn handler
BaseHandlers == {"H", "F"}
AroundIds == {"W1", "W2"}
\* the placeholder handler of ChainBuilder::around
Nop == <<"Nop">>

\* ----------------------------------------------------------------- state
VARIABLES
    befores,        \* ChainBuilder.befores, the ids of the boxed middleware
    afters,         \* ChainBuilder.afters
    handler,        \* ChainBuilder.handler: the nest, outermost first
    withHandlerLog, \* the calls of AroundMiddleware::with_handler so far
    pc,             \* where the dispatch stands
    entry,          \* the Handler method of the Chain being run
    incoming,       \* the err argument of ChainBuilder::catch
    off,            \* index in the whole list of the first stage of the slice
    i,              \* the loop index inside the slice
    err,            \* the Option<error> of run_befores / run_afters
    res,            \* the Response carried through the after-phase
    result,         \* what the dispatch returned
    trace,          \* the stage and handler operations run, in order
    other           \* the dispatch of another thread on the same Chain,
                    \* suspended: its pc, entry, ..., trace

vars == <<befores, afters, handler, withHandlerLog,
          pc, entry, incoming, off, i, err, res, result, trace, other>>

chainVars == <<befores, afters, handler, withHandlerLog>>
dispatchVars == <<pc, entry, incoming, off, i, err, res, result, trace>>

\* --------------------------------------------------------------- helpers
\* s.slice_from(k): the slice without its first k elements
SliceFrom(s, k) == SubSeq(s, k + 1, Len(s))

\* one operation of a stage and its outcome
Op(op, idx, arg, out) ==
    [op |-> op, idx |-> idx, arg |-> arg, out |-> out, res |-> NoResponse]
\* one operation of the handler, its outcome and the Response it produced
HandlerOp(op, arg, o) ==
    [op |-> op, idx |-> -1, arg |-> arg, out |-> o.out, res |-> o.res]

\* what BeforeMiddleware::before / AfterMiddleware::after can return
StageOutcomes == {OkUnit} \cup Errors

\* BeforeMiddleware::catch when not overridden: Err(err)
BeforeDefaultCatch(e) == e
\* AfterMiddleware::catch when not overridden: Err(err)
AfterDefaultCatch(e) == e
\* what a catch of a middleware can return: Ok(()), or Err of any error
BeforeCatchOutcomes(e) == {OkUnit, BeforeDefaultCatch(e)} \cup Errors
AfterCatchOutcomes(e) == {OkUnit, AfterDefaultCatch(e)} \cup Errors

\* a default catch of the handler that reports the error handled
HandlerDefaultCatch_Handles(e) ==
    [res |-> Response("handler.catch", "InternalServerError"), out |-> OkUnit]

\* Handler::catch when not overridden (also fn handlers and Nop)
HandlerDefaultCatch(e) ==
    [res |-> Response("handler.catch", "InternalServerError"), out |-> e]

\* Handler::call of the installed handler h: Ok(res) or Err(e)
HandlerCallOutcomes(h) ==
    IF h = Nop
    THEN {[res |-> Response("handler.call", "Ok"), out |-> OkUnit]}
    ELSE {[res |-> Response("handler.call", s), out |-> OkUnit] : s \in Statuses}
         \cup {[res |-> NoResponse, out |-> e] : e \in Errors}

\* Handler::catch of the installed handler h: (res, Ok(())) or (res, Err(e)).
\* The Response of a catch is an error response, as that of the default
\* catch; the Chain never reads the status of a Response.
HandlerCatchOutcomes(h, e) ==
    IF Head(h) \in {"Nop", "F"}
    THEN {HandlerDefaultCatch(e)}
    ELSE {[res |-> Response("handler.catch", "InternalServerError"), out |-> o] :
             o \in {OkUnit} \cup Errors}

\* ------------------------------------------------- helpers::run_befores
\* the slice run_befores is working on
BeforeSlice == SliceFrom(befores, off)

\* a run_befores that starts catching at the stage after the one that failed
RunBeforesOnErr_NextStage(o, k, e) == [off |-> o + k + 1, i |-> 0, err |-> e]

\* Err(err) => return run_befores(req, befores.slice_from(i), Some(err))
RunBeforesOnErr(o, k, e) == [off |-> o + k, i |-> 0, err |-> e]
\* a run_befores that restarts at the head of the whole list once caught
RunBeforesOnCaught_WholeList(o, k) == [off |-> 0, i |-> 0, err |-> None]

\* Ok(_) => return run_befores(req, befores, None)
RunBeforesOnCaught(o, k) == [off |-> o, i |-> 0, err |-> None]
\* Err(new) => e = new, and the loop goes on
RunBeforesOnRethrow(o, k, e, new) == [off |-> o, i |-> k + 1, err |-> new]
\* a run_befores that returns Ok(()) when no stage has caught the error
RunBeforesResult_Swallows(e) == OkUnit

\* the value run_befores returns when its loop ends: Ok(()) or Err(e)
RunBeforesResult(e) == IF e = None THEN OkUnit ELSE e

\* -------------------------------------------------- helpers::run_afters
AfterSlice == SliceFrom(afters, off)

\* a run_afters that starts catching at the stage after the one that failed
RunAftersOnErr_NextStage(o, k, e) == [off |-> o + k + 1, i |-> 0, err |-> e]

\* Err(err) => return run_afters(req, res, Some(err), afters.slice_from(i))
RunAftersOnErr(o, k, e) == [off |-> o + k, i |-> 0, err |-> e]
\* a run_afters that restarts at the head of the whole list once caught
RunAftersOnCaught_WholeList(o, k) == [off |-> 0, i |-> 0, err |-> None]
\* a run_afters that resumes at the stage whose catch returned Ok
RunAftersOnCaught_AtCatcher(o, k) == [off |-> o + k, i |-> 0, err |-> None]
\* a run_afters that resumes after the stage whose catch returned Ok
RunAftersOnCaught_PastCatcher(o, k) == [off |-> o + k + 1, i |-> 0, err |-> None]

\* Ok(_) => return run_afters(req, res, None, afters)
RunAftersOnCaught(o, k) == [off |-> o, i |-> 0, err |-> None]
\* a run_afters loop that keeps the error it had instead of the new one
RunAftersOnRethrow_KeepsOld(o, k, e, new) == [off |-> o, i |-> k + 1, err |-> e]

\* Err(new) => e = new, and the loop goes on
RunAftersOnRethrow(o, k, e, new) == [off |-> o, i |-> k + 1, err |-> new]
\* a run_afters that returns a Response of its own instead of res
RunAftersResult_OwnResponse(r, e) ==
    IF e = None THEN [res |-> Response("run_afters", "Ok"), err |-> None]
    ELSE [res |-> NoResponse, err |-> e]

\* the value run_afters returns when its loop ends: Ok(res) or Err(e)
RunAftersResult(r, e) ==
    IF e = None THEN [res |-> r, err |-> None] ELSE [res |-> NoResponse, err |-> e]

\* ------------------------------------------- helpers::run_handler_catch
\* a run_handler_catch that does not pass on the Response of the catch
RunHandlerCatch_LosesResponse(out) ==
    [res |-> NoResponse, err |-> IF out.out = OkUnit THEN None ELSE out.out]

\* a run_handler_catch that takes every outcome of the catch for Ok
RunHandlerCatch_DropsResidual(out) == [res |-> out.res, err |-> None]

\* (res, Ok(())) => (res, None);  (res, Err(e)) => (res, Some(e))
RunHandlerCatch(out) ==
    [res |-> out.res, err |-> IF out.out = OkUnit THEN None ELSE out.out]

\* --------------------------------------------- impl Handler for ChainBuilder
\* a Chain that runs the handler's call whatever before_result is
HandlerMethod_AlwaysCall(before_result) == "call"

\* the match on before_result: which method of the handler is run
HandlerMethod(before_result) ==
    IF before_result = OkUnit THEN "call" ELSE "catch"

\* what ChainBuilder::call returns from the value of run_afters
CallReturn(r) == r
\* a catch that returns what call returns, without a Response on failure
CatchReturn_AsCall(r) == r

\* what ChainBuilder::catch returns from the value of run_afters
CatchReturn(r) ==
    IF r.err = None THEN [res |-> r.res, err |-> None]
    ELSE [res |-> ChainInternalError, err |-> r.err]

\* ------------------------------------------------- impl Chain for ChainBuilder
\* ChainBuilder::new(handler): the Chain right after construction
New(h) == [befores |-> <<>>, afters |-> <<>>, handler |-> <<h>>]

\* Vec::push
Push(v, x) == Append(v, x)

\* a replace that hands back the value it has just stored
MemReplace_ReturnsNew(dest, src) == [dest |-> src, old |-> src]

\* mem::replace(dest, src): src is stored in dest, the old value is returned
MemReplace(dest, src) == [dest |-> src, old |-> dest]

\* AroundMiddleware::with_handler: the middleware w keeps inner to delegate to
WithHandler(w, inner) == <<w>> \o inner

\* the body of ChainBuilder::around: the handler installed at its end and the
\* with_handler calls it made
AroundBody(h, w) ==
    LET r == MemReplace(h, Nop)
        around == WithHandler(w, r.old)
    IN  [handler |-> around,
         calls |-> <<[stage |-> w, inner |-> r.old, slot |-> r.dest]>>]

\* the ChainBuilder as a value: its three fields
ChainBuilder == [befores |-> befores, afters |-> afters, handler |-> handler]

\* the ChainBuilder c becomes the ChainBuilder n
Becomes(n) ==
    /\ befores' = n.befores /\ afters' = n.afters /\ handler' = n.handler

\* a link that puts the new middleware at the head of the before-list
link_Prepends(c, before, after) ==
    [c EXCEPT !.befores = <<before>> \o @, !.afters = Push(@, after)]

\* the body of link: push before to befores, then after to afters
link(c, before, after) ==
    [c EXCEPT !.befores = Push(@, before), !.afters = Push(@, after)]
\* the body of link_before
link_before(c, before) == [c EXCEPT !.befores = Push(@, before)]
\* the body of link_after
link_after(c, after) == [c EXCEPT !.afters = Push(@, after)]

\* fn link(&mut self, (before, after))
Link ==
    /\ pc = "idle"
    /\ Len(befores) < MaxStages /\ Len(afters) < MaxStages
    /\ \E b \in BeforeIds, a \in AfterIds : Becomes(link(ChainBuilder, b, a))
    /\ UNCHANGED withHandlerLog
    /\ UNCHANGED <<dispatchVars, other>>

\* fn link_before(&mut self, before)
LinkBefore ==
    /\ pc = "idle"
    /\ Len(befores) < MaxStages
    /\ \E b \in BeforeIds : Becomes(link_before(ChainBuilder, b))
    /\ UNCHANGED withHandlerLog
    /\ UNCHANGED <<dispatchVars, other>>

\* fn link_after(&mut self, after)
LinkAfter ==
    /\ pc = "idle"
    /\ Len(afters) < MaxStages
    /\ \E a \in AfterIds : Becomes(link_after(ChainBuilder, a))
    /\ UNCHANGED withHandlerLog
    /\ UNCHANGED <<dispatchVars, other>>

\* fn around(&mut self, around)
Around ==
    /\ pc = "idle"
    /\ Len(handler) - 1 < MaxWraps
    /\ \E w \in AroundIds :
        LET r == AroundBody(handler, w)
        IN  /\ handler' = r.handler
            /\ withHandlerLog' = withHandlerLog \o r.calls
    /\ UNCHANGED <<befores, afters>>
    /\ UNCHANGED <<dispatchVars, other>>

\* ------------------------------------------------------- calls in threads
\* what a call of ChainBuilder::call / catch keeps on its own stack: its
\* arguments, its locals and those of the helpers, and what it has run
Frame ==
    [pc |-> pc, entry |-> entry, incoming |-> incoming, off |-> off, i |-> i,
     err |-> err, res |-> res, result |-> result, trace |-> trace]

\* the Frame of a call that has not been made yet
IdleFrame ==
    [pc |-> "idle", entry |-> "none", incoming |-> None, off |-> 0, i |-> 0,
     err |-> None, res |-> NoResponse,
     result |-> [res |-> NoResponse, err |-> None], trace |-> <<>>]

\* no other thread uses the Chain
NoThread == [IdleFrame EXCEPT !.pc = "absent"]

\* a thread that takes over the processor without restoring its loop index
Resume_SharedIndex(f) ==
    /\ pc' = f.pc /\ entry' = f.entry /\ incoming' = f.incoming
    /\ off' = f.off /\ i' = i /\ err' = f.err
    /\ res' = f.res /\ result' = f.result /\ trace' = f.trace

\* the thread whose Frame is f takes over the processor
Resume(f) ==
    /\ pc' = f.pc /\ entry' = f.entry /\ incoming' = f.incoming
    /\ off' = f.off /\ i' = f.i /\ err' = f.err
    /\ res' = f.res /\ result' = f.result /\ trace' = f.trace

\* the operations the model lets the dispatches run
Budget == IF other = NoThread THEN MaxSteps ELSE MaxStepsShared
StepsLeft == Len(trace) + Len(other.trace) < Budget

\* the running call is preempted and the other thread's call goes on; the
\* Chain is shared by reference (&self, Handler: Send + Sync)
Switch ==
    /\ other # NoThread
    /\ other' = Frame
    /\ Resume(other)
    /\ UNCHANGED chainVars

\* ------------------------------------------------------------- dispatch
\* ChainBuilder::call: run_befores(req, self.befores.as_slice(), None)
Call ==
    /\ pc = "idle"
    /\ pc' = "run_befores"
    /\ entry' = "call"
    /\ incoming' = None
    /\ off' = 0 /\ i' = 0 /\ err' = None
    /\ UNCHANGED <<res, result, trace>>
    /\ UNCHANGED <<chainVars, other>>

\* ChainBuilder::catch: run_befores(req, self.befores.as_slice(), Some(err))
Catch ==
    /\ pc = "idle"
    /\ \E e \in Errors :
        /\ pc' = "run_befores"
        /\ entry' = "catch"
        /\ incoming' = e
        /\ off' = 0 /\ i' = 0 /\ err' = e
    /\ UNCHANGED <<res, result, trace>>
    /\ UNCHANGED <<chainVars, other>>

\* run_befores, None arm: before.before(req) of the next stage of the slice
RunBeforesForward ==
    /\ pc = "run_befores" /\ err = None
    /\ i < Len(BeforeSlice)
    /\ StepsLeft
    /\ \E out \in StageOutcomes :
        /\ trace' = Append(trace, Op("before", off + i, None, out))
        /\ IF out = OkUnit
           THEN i' = i + 1 /\ UNCHANGED <<off, err>>
           ELSE LET n == RunBeforesOnErr(off, i, out)
                IN  off' = n.off /\ i' = n.i /\ err' = n.err
    /\ UNCHANGED <<pc, entry, incoming, res, result>>
    /\ UNCHANGED <<chainVars, other>>

\* run_befores, Some(e) arm: before.catch(req, e) of the next stage
RunBeforesCatching ==
    /\ pc = "run_befores" /\ err # None
    /\ i < Len(BeforeSlice)
    /\ StepsLeft
    /\ \E out \in BeforeCatchOutcomes(err) :
        /\ trace' = Append(trace, Op("before.catch", off + i, err, out))
        /\ IF out = OkUnit
           THEN LET n == RunBeforesOnCaught(off, i)
                IN  off' = n.off /\ i' = n.i /\ err' = n.err
           ELSE LET n == RunBeforesOnRethrow(off, i, err, out)
                IN  off' = n.off /\ i' = n.i /\ err' = n.err
    /\ UNCHANGED <<pc, entry, incoming, res, result>>
    /\ UNCHANGED <<chainVars, other>>

\* run_befores has returned before_result
BeforesReturned == pc = "run_befores" /\ i = Len(BeforeSlice)

\* Ok(()) => match self.handler.call(req)
HandlerCall ==
    /\ BeforesReturned
    /\ HandlerMethod(RunBeforesResult(err)) = "call"
    /\ StepsLeft
    /\ \E o \in HandlerCallOutcomes(handler) :
        /\ trace' = Append(trace, HandlerOp("handler.call", None, o))
        /\ IF o.out = OkUnit
           THEN /\ res' = o.res /\ err' = None
                /\ pc' = "run_afters"
           ELSE /\ res' = res /\ err' = o.out
                /\ pc' = "run_handler_catch"
    /\ off' = 0 /\ i' = 0
    /\ UNCHANGED <<entry, incoming, result>>
    /\ UNCHANGED <<chainVars, other>>

\* the error run_handler_catch is about to be called with
HandlerCatchPending ==
    \/ pc = "run_handler_catch"
    \/ BeforesReturned /\ HandlerMethod(RunBeforesResult(err)) = "catch"

\* Err(e) => helpers::run_handler_catch(req, e, &self.handler), both sites
HandlerCatch ==
    /\ HandlerCatchPending
    /\ StepsLeft
    /\ \E o \in HandlerCatchOutcomes(handler, err) :
        LET n == RunHandlerCatch(o)
        IN  /\ trace' = Append(trace, HandlerOp("handler.catch", err, o))
            /\ res' = n.res /\ err' = n.err
    /\ pc' = "run_afters"
    /\ off' = 0 /\ i' = 0
    /\ UNCHANGED <<entry, incoming, result>>
    /\ UNCHANGED <<chainVars, other>>

\* run_afters, None arm: after.after(req, &mut res) of the next stage
RunAftersForward ==
    /\ pc = "run_afters" /\ err = None
    /\ i < Len(AfterSlice)
    /\ StepsLeft
    /\ \E out \in StageOutcomes :
        /\ trace' = Append(trace, Op("after", off + i, None, out))
        /\ IF out = OkUnit
           THEN i' = i + 1 /\ UNCHANGED <<off, err>>
           ELSE LET n == RunAftersOnErr(off, i, out)
                IN  off' = n.off /\ i' = n.i /\ err' = n.err
    /\ UNCHANGED <<pc, entry, incoming, res, result>>
    /\ UNCHANGED <<chainVars, other>>

\* run_afters, Some(e) arm: after.catch(req, &mut res, e) of the next stage
RunAftersCatching ==
    /\ pc = "run_afters" /\ err # None
    /\ i < Len(AfterSlice)
    /\ StepsLeft
    /\ \E out \in AfterCatchOutcomes(err) :
        /\ trace' = Append(trace, Op("after.catch", off + i, err, out))
        /\ IF out = OkUnit
           THEN LET n == RunAftersOnCaught(off, i)
                IN  off' = n.off /\ i' = n.i /\ err' = n.err
           ELSE LET n == RunAftersOnRethrow(off, i, err, out)
                IN  off' = n.off /\ i' = n.i /\ err' = n.err
    /\ UNCHANGED <<pc, entry, incoming, res, result>>
    /\ UNCHANGED <<chainVars, other>>

\* run_afters has returned; ChainBuilder::call / catch returns
Return ==
    /\ pc = "run_afters" /\ i = Len(AfterSlice)
    /\ result' = IF entry = "call"
                 THEN CallReturn(RunAftersResult(res, err))
                 ELSE CatchReturn(RunAftersResult(res, err))
    /\ pc' = "done"
    /\ UNCHANGED <<entry, incoming, off, i, err, res, trace>>
    /\ UNCHANGED <<chainVars, other>>

\* ---------------------------------------------------------- the dispatch
\* the first n middleware of an assembled list
Roster(ids, n) == [k \in 1..n |-> ids[((k - 1) % Len(ids)) + 1]]

DispatchIdle ==
    /\ pc = "idle" /\ entry = "none" /\ incoming = None
    /\ off = 0 /\ i = 0 /\ err = None
    /\ res = NoResponse
    /\ result = [res |-> NoResponse, err |-> None]
    /\ trace = <<>>

\* an assembled Chain, about to be called
Init ==
    /\ befores \in {Roster(<<"B1", "B2">>, n) : n \in 0..MaxStages}
    /\ afters \in {Roster(<<"A1", "A2">>, n) : n \in 0..MaxStages}
    /\ handler \in {<<h>> : h \in BaseHandlers}
    /\ withHandlerLog = <<>>
    /\ DispatchIdle
    /\ other = NoThread

Next ==
    \/ Call
    \/ Catch
    \/ RunBeforesForward
    \/ RunBeforesCatching
    \/ HandlerCall
    \/ HandlerCatch
    \/ RunAftersForward
    \/ RunAftersCatching
    \/ Return

Spec == Init /\ [][Next]_vars

\* ------------------------------------------------------------- assembly
\* a Chain fresh from ChainBuilder::new, not yet shared
InitBuild ==
    /\ \E h \in BaseHandlers :
        LET c == New(h)
        IN  befores = c.befores /\ afters = c.afters /\ handler = c.handler
    /\ withHandlerLog = <<>>
    /\ DispatchIdle
    /\ other = NoThread

NextBuild ==
    \/ Link
    \/ LinkBefore
    \/ LinkAfter
    \/ Around

SpecBuild == InitBuild /\ [][NextBuild]_vars

\* ------------------------------------------------- two calls, one Chain
\* an assembled Chain that two threads are about to call
InitShared ==
    /\ befores \in {Roster(<<"B1", "B2">>, n) : n \in 0..MaxStages}
    /\ afters \in {Roster(<<"A1", "A2">>, n) : n \in 0..MaxStages}
    /\ handler = <<"H">>
    /\ withHandlerLog = <<>>
    /\ DispatchIdle
    /\ other = IdleFrame

NextShared ==
    \/ Call
    \/ RunBeforesForward
    \/ RunBeforesCatching
    \/ HandlerCall
    \/ HandlerCatch
    \/ RunAftersForward
    \/ RunAftersCatching
    \/ Return
    \/ Switch

SpecShared == InitShared /\ [][NextShared]_vars

\* ------------------------------------------------------------ invariants
TypeOK ==
    /\ pc \in {"idle", "run_befores", "run_handler_catch", "run_afters", "done"}
    /\ entry \in {"none", "call", "catch"}
    /\ off \in 0..MaxStages /\ i \in 0..MaxStages
    /\ err \in {None} \cup Errors
    /\ incoming \in {None} \cup Errors
    /\ Len(trace) <= MaxSteps

\* ------------------------------------------------- reading the trace
\* the positions of the trace
Pos == 1..Len(trace)
\* the operation at p is an `op` that returned an error
IsFail(p, op) == trace[p].op = op /\ trace[p].out \in Errors
\* the operation at q is an `op` that returned Ok
IsOk(q, op) == trace[q].op = op /\ trace[q].out = OkUnit
\* the catch at position r is the catch of stage first + (r - p - 1), called
\* with the error the operation before it returned
CatchChained(op, p, r, first) ==
    /\ trace[r].op = op
    /\ trace[r].idx = first + (r - p - 1)
    /\ trace[r].arg = trace[r - 1].out

\* the error raised by the `before` at p is caught by the before.catch at q
BeforeResolved(p, q) ==
    /\ p < q
    /\ IsFail(p, "before") /\ IsOk(q, "before.catch")
    /\ \A r \in (p + 1)..(q - 1) : ~IsOk(r, "before.catch")

\* the error raised by the `after` at p is caught by the after.catch at q
AfterResolved(p, q) ==
    /\ p < q
    /\ IsFail(p, "after") /\ IsOk(q, "after.catch")
    /\ \A r \in (p + 1)..(q - 1) : ~IsOk(r, "after.catch")

\* ------------------------------------------------------------------ C1
\* the error raised by the `before` at p is caught by no before-stage
C1_Unresolved(p) ==
    /\ IsFail(p, "before")
    /\ \A r \in (p + 1)..Len(trace) : ~IsOk(r, "before.catch")

\* C1: in a call, when before-stage i fails and no before-stage from i on
\* resolves the error, the catch of every stage i, i+1, ... is tried in order,
\* then the handler's catch is run with the error the last of them returned,
\* and the handler's call is never run.
C1_HandlerCatchGetsBeforeError ==
    entry = "call" =>
        \A p \in Pos : C1_Unresolved(p) =>
            /\ \A q \in Pos : trace[q].op # "handler.call"
            /\ pc # "run_handler_catch"
            /\ pc \in {"run_afters", "done"} =>
                   \E q \in Pos : trace[q].op = "handler.catch"
            /\ \A q \in Pos : trace[q].op = "handler.catch" =>
                /\ q = p + 1 + (Len(befores) - trace[p].idx)
                /\ \A r \in (p + 1)..(q - 1) :
                       CatchChained("before.catch", p, r, trace[p].idx)
                /\ trace[q].arg = trace[q - 1].out

\* the second before-stage fails, its catch replaces the error, and the
\* handler's catch has been given the replacement
C1_Witness ==
    /\ pc = "done" /\ entry = "call"
    /\ \E p \in Pos :
        /\ C1_Unresolved(p) /\ trace[p].idx = 1
        /\ \E q \in Pos : /\ trace[q].op = "handler.catch"
                          /\ trace[q].arg # trace[p].out

C5_ResumesAfterThrower ==
    \A p, q \in Pos :
        (BeforeResolved(p, q) /\ q = Len(trace)) =>
            (pc = "run_befores" /\ err = None /\ off + i = trace[p].idx + 1)

C4_ResumesAfterThrower ==
    \A p, q \in Pos :
        (AfterResolved(p, q) /\ q = Len(trace)) =>
            (pc = "run_afters" /\ err = None /\ off + i = trace[p].idx + 1)

\* ------------------------------------------------------------------ C6
\* the handler's call at h failed and its catch left a residual error
C6_HandlerResidual(h) ==
    /\ IsFail(h, "handler.call")
    /\ h < Len(trace) /\ IsFail(h + 1, "handler.catch")

\* C6: when the handler's call fails, its catch leaves a residual error and
\* no after-stage's catch returns Ok, the catch of every after-stage is run
\* in list order, each with the error the previous catch returned (the
\* residual for stage 0), and call returns Err of the last one's error.
C6_CallFailsWithFinalError ==
    entry = "call" =>
        \A h \in Pos :
            (C6_HandlerResidual(h) /\ \A r \in Pos : ~IsOk(r, "after.catch")) =>
                /\ trace[h + 1].arg = trace[h].out
                /\ \A r \in (h + 2)..Len(trace) :
                       CatchChained("after.catch", h + 1, r, 0)
                /\ pc = "done" =>
                       /\ Len(trace) = h + 1 + Len(afters)
                       /\ result.err = trace[Len(trace)].out
                       /\ result.err \in Errors
                       /\ result.res = NoResponse

\* a call that failed in the handler and whose error each of the two
\* after-stages replaced
C6_Witness ==
    /\ pc = "done" /\ entry = "call" /\ Len(afters) = 2
    /\ \E h \in Pos :
        /\ C6_HandlerResidual(h)
        /\ \A r \in Pos : ~IsOk(r, "after.catch")
        /\ trace[h + 2].out # trace[h + 2].arg
        /\ trace[h + 3].out # trace[h + 3].arg
        /\ result.err = trace[h + 3].out

\* ------------------------------------------------------------------ C7
\* the pipeline and the stage behaviour of the scenario: befores [B1 passes,
\* B2 fails with E1], a handler with the default catch, afters [A1's catch
\* re-raises, A2's catch resolves], every other catch the default one and
\* every `after` passing
C7_Scenario ==
    /\ entry = "call"
    /\ Len(befores) = 2 /\ Len(afters) = 2 /\ handler = <<"F">>
    /\ \A p \in Pos :
        /\ (trace[p].op = "before" /\ trace[p].idx = 0) => trace[p].out = OkUnit
        /\ (trace[p].op = "before" /\ trace[p].idx = 1) => trace[p].out = "E1"
        /\ trace[p].op = "before.catch" =>
               trace[p].out = BeforeDefaultCatch(trace[p].arg)
        /\ (trace[p].op = "after.catch" /\ trace[p].idx = 0) =>
               trace[p].out = AfterDefaultCatch(trace[p].arg)
        /\ (trace[p].op = "after.catch" /\ trace[p].idx = 1) =>
               trace[p].out = OkUnit
        /\ trace[p].op = "after" => trace[p].out = OkUnit

\* the operations the scenario is claimed to run
C7_ClaimedOps ==
    << Op("before", 0, None, OkUnit),
       Op("before", 1, None, "E1"),
       Op("before.catch", 0, "E1", "E1"),
       HandlerOp("handler.catch", "E1", HandlerDefaultCatch("E1")),
       Op("after.catch", 0, "E1", "E1"),
       Op("after.catch", 1, "E1", OkUnit) >>

\* the operations the scenario runs
C7_ActualOps ==
    << Op("before", 0, None, OkUnit),
       Op("before", 1, None, "E1"),
       Op("before.catch", 1, "E1", "E1"),
       HandlerOp("handler.catch", "E1", HandlerDefaultCatch("E1")),
       Op("after.catch", 0, "E1", "E1"),
       Op("after.catch", 1, "E1", OkUnit),
       Op("after", 0, None, OkUnit),
       Op("after", 1, None, OkUnit) >>

\* the call returned Ok with the fallback Response of the handler's catch
C7_ReturnsFallback ==
    result = [res |-> HandlerDefaultCatch("E1").res, err |-> None]

\* C7 as claimed: the scenario runs B1.before, B2.before, B1.catch(E1),
\* H.catch(E1), A1.catch(E1), A2.catch(E1), no `after`, and returns Ok.
C7_ScenarioAsClaimed ==
    (C7_Scenario /\ pc = "done") =>
        (trace = C7_ClaimedOps /\ C7_ReturnsFallback)

\* C7 as amended: the scenario runs B1.before, B2.before, B2.catch(E1),
\* H.catch(E1), A1.catch(E1), A2.catch(E1), A1.after, A2.after, never
\* H.call, and returns Ok with the Response of H.catch.
C7_ScenarioAsRun ==
    C7_Scenario =>
        /\ Len(trace) <= Len(C7_ActualOps)
        /\ trace = SubSeq(C7_ActualOps, 1, Len(trace))
        /\ pc = "done" => (trace = C7_ActualOps /\ C7_ReturnsFallback)

\* the scenario has run to its end
C7_Witness == C7_Scenario /\ pc = "done" /\ Len(trace) = 8

\* ------------------------------------------------------------------ C8
\* no operation of the dispatch returned an error
C8_NoError == \A p \in Pos : trace[p].out = OkUnit

\* the p-th operation of a dispatch without errors
C8_Expected(p) ==
    IF p <= Len(befores) THEN [op |-> "before", idx |-> p - 1]
    ELSE IF p = Len(befores) + 1 THEN [op |-> "handler.call", idx |-> -1]
    ELSE [op |-> "after", idx |-> p - Len(befores) - 2]

\* C8: when no operation returns an error, a call runs every `before` once
\* in list order, the handler's call once, every `after` once in list
\* order, no catch, and returns Ok with the handler's Response.
C8_NoErrorFlow ==
    (entry = "call" /\ C8_NoError) =>
        /\ Len(trace) <= Len(befores) + 1 + Len(afters)
        /\ \A p \in Pos : /\ trace[p].op = C8_Expected(p).op
                          /\ trace[p].idx = C8_Expected(p).idx
        /\ pc = "done" =>
               /\ Len(trace) = Len(befores) + 1 + Len(afters)
               /\ result = [res |-> trace[Len(befores) + 1].res, err |-> None]
               /\ result.res.origin = "handler.call"

\* a call through two before-stages and two after-stages without an error
C8_Witness ==
    /\ pc = "done" /\ entry = "call" /\ C8_NoError
    /\ Len(befores) = 2 /\ Len(afters) = 2
    /\ result.res.origin = "handler.call"

\* ------------------------------------------------------------------ C9
\* the wrappers nest in the order of the with_handler calls, the last one
\* outermost, around the first handler, and the placeholder is not installed
C9_Nested ==
    /\ Len(handler) = Len(withHandlerLog) + 1
    /\ \A k \in 1..Len(handler) : handler[k] # "Nop"
    /\ \A k \in 1..Len(withHandlerLog) :
           /\ handler[k] = withHandlerLog[Len(withHandlerLog) - k + 1].stage
           /\ withHandlerLog[k].inner =
                  SubSeq(handler, Len(handler) - k + 1, Len(handler))

\* a step that changes the handler or calls with_handler is one `around`:
\* one with_handler call, given the handler installed before the step while
\* the placeholder sits in the slot, then the stage installed; lists untouched
C9_AroundStep ==
    (handler' # handler \/ withHandlerLog' # withHandlerLog) =>
        /\ Len(withHandlerLog') = Len(withHandlerLog) + 1
        /\ SubSeq(withHandlerLog', 1, Len(withHandlerLog)) = withHandlerLog
        /\ LET c == withHandlerLog'[Len(withHandlerLog')]
           IN  /\ c.inner = handler
               /\ c.slot = Nop
               /\ handler' = <<c.stage>> \o handler
        /\ UNCHANGED <<befores, afters>>

\* C9: each around(stage) calls stage.with_handler exactly once with the
\* handler installed at that moment and then installs stage, so wrappers
\* nest in order of addition, the last added outermost; the placeholder is
\* never installed once around has returned; the stage lists are unchanged.
C9_AroundWrapsInstalledHandler == []C9_Nested /\ [][C9_AroundStep]_vars

\* two different wrappers around the first handler of a Chain with stages
C9_Witness ==
    /\ Len(handler) = 3 /\ handler[1] # handler[2]
    /\ Len(befores) > 0 /\ Len(afters) > 0

\* ----------------------------------------------------------------- C10
\* every operation before position q is a before-stage's catch that
\* returned an error
C10_NoneCaughtBefore(q) == \A r \in 1..(q - 1) : IsFail(r, "before.catch")

\* the error handed on by the operation before position q
C10_ErrorAt(q) == IF q = 1 THEN incoming ELSE trace[q - 1].out

\* C10: the Chain's catch(req, err) starts the before-phase in catching
\* mode at index 0 with err, runs no `before` until a before-stage's catch
\* has resolved the error, runs the handler's catch with the error left if
\* none does, and returns (res, Ok(())) when the after-phase succeeds with
\* res and (a fresh internal-error Response, Err(e)) when it fails with e.
C10_ChainCatch ==
    entry = "catch" =>
        /\ incoming \in Errors
        /\ (pc = "run_befores" /\ trace = <<>>) =>
               (err = incoming /\ off = 0 /\ i = 0)
        /\ \A q \in Pos : C10_NoneCaughtBefore(q) =>
               /\ trace[q].op \in {"before.catch", "handler.catch"}
               /\ trace[q].arg = C10_ErrorAt(q)
               /\ trace[q].op = "before.catch" => trace[q].idx = q - 1
               /\ trace[q].op = "handler.catch" => q = Len(befores) + 1
        /\ \A q \in Pos : trace[q].op = "handler.call" =>
               (q > 1 /\ trace[q - 1].op \in {"before", "before.catch"}
                      /\ trace[q - 1].out = OkUnit)
        /\ pc = "done" =>
               /\ err = None => result = [res |-> res, err |-> None]
               /\ err # None =>
                      /\ result = [res |-> ChainInternalError, err |-> err]
                      /\ result.res # res

\* a catch whose error a before-stage resolved, whose handler then produced
\* a Response, and whose after-phase failed: that Response is discarded
C10_Witness ==
    /\ pc = "done" /\ entry = "catch"
    /\ res.origin = "handler.call"
    /\ result.err \in Errors /\ result.res = ChainInternalError
    /\ \E q \in Pos : q > 1 /\ C10_NoneCaughtBefore(q) /\ IsOk(q, "before.catch")

\* ----------------------------------------------------------------- C11
\* the operation at q hands an error to the handle phase: the last
\* before-stage's catch re-raised, the handler's call failed, or the Chain's
\* catch was entered on an empty before-list
C11_ErrorReachesHandler(q) ==
    IF q = 0 THEN entry = "catch" /\ Len(befores) = 0
    ELSE \/ IsFail(q, "handler.call")
         \/ IsFail(q, "before.catch") /\ trace[q].idx = Len(befores) - 1

\* the error handed on after position q
C11_ErrorAfter(q) == IF q = 0 THEN incoming ELSE trace[q].out

\* C11: the handler's catch is run exactly when the before-phase ended in
\* failure or the handler's call returned an error, with that error; when
\* it returns Ok the after-phase starts in forward mode at stage 0 with its
\* Response, and when it returns a residual the after-phase starts in
\* catching mode at stage 0 with the residual, so that no `after` is run
\* before an after-stage's catch has returned Ok.
C11_HandlePhase ==
    /\ \A q \in 0..Len(trace) :
           (C11_ErrorReachesHandler(q) /\ q < Len(trace)) =>
               trace[q + 1].op = "handler.catch"
    /\ \A q \in Pos : trace[q].op = "handler.catch" =>
        /\ C11_ErrorReachesHandler(q - 1)
        /\ trace[q].arg = C11_ErrorAfter(q - 1)
        /\ q = Len(trace) =>
               /\ pc \in {"run_afters", "done"} /\ off = 0 /\ i = 0
               /\ res = trace[q].res
               /\ err = IF trace[q].out = OkUnit THEN None ELSE trace[q].out
        /\ q < Len(trace) =>
               /\ trace[q + 1].idx = 0
               /\ trace[q + 1].op =
                      IF trace[q].out = OkUnit THEN "after" ELSE "after.catch"
               /\ trace[q + 1].arg =
                      IF trace[q].out = OkUnit THEN None ELSE trace[q].out
        /\ trace[q].out \in Errors =>
               \A r \in (q + 1)..Len(trace) : trace[r].op = "after" =>
                   \E c \in (q + 1)..(r - 1) : IsOk(c, "after.catch")

\* a call whose handler failed and left a residual that the second
\* after-stage resolved, after which `after` was run
C11_Witness ==
    /\ pc = "done"
    /\ \E q \in Pos :
        /\ q > 1 /\ IsFail(q - 1, "handler.call") /\ IsFail(q, "handler.catch")
        /\ q + 3 <= Len(trace)
        /\ IsFail(q + 1, "after.catch") /\ IsOk(q + 2, "after.catch")
        /\ trace[q + 3].op = "after"

\* ----------------------------------------------------------------- C13
\* an operation that raises or re-raises an error
C13_Raises(p) == trace[p].out \in Errors
\* the live error after the operations run so far
C13_Live ==
    IF trace = <<>> THEN incoming
    ELSE IF C13_Raises(Len(trace)) THEN trace[Len(trace)].out ELSE None

\* C13: one error at most is live, and it is never dropped: the error an
\* operation returns is handed to the catch run next, `before`, `call` and
\* `after` are run only while no error is live, and the dispatch returns
\* the error that is live at its end; so it returns Ok only if every error
\* raised ended in a catch that returned Ok.
C13_ErrorNeverDropped ==
    /\ pc # "idle" => err = C13_Live
    /\ \A p \in Pos :
        /\ trace[p].op \in {"before.catch", "handler.catch", "after.catch"} =>
               /\ trace[p].arg \in Errors
               /\ trace[p].arg = IF p = 1 THEN incoming ELSE trace[p - 1].out
        /\ trace[p].op \in {"before", "handler.call", "after"} =>
               /\ trace[p].arg = None
               /\ IF p = 1 THEN incoming = None ELSE trace[p - 1].out = OkUnit
    /\ pc = "done" =>
        /\ result.err = C13_Live
        /\ result.err = None =>
               \A p \in Pos : C13_Raises(p) =>
                   \E q \in (p + 1)..Len(trace) :
                       /\ trace[q].out = OkUnit
                       /\ trace[q].op \in
                              {"before.catch", "handler.catch", "after.catch"}
                       /\ \A r \in (p + 1)..q : trace[r].arg = trace[r - 1].out

\* a call that returned Ok although a `before` and an `after` failed
C13_Witness ==
    /\ pc = "done" /\ entry = "call" /\ result.err = None
    /\ \E p, q \in Pos : IsFail(p, "before") /\ IsFail(q, "after")

\* ----------------------------------------------------------------- C14
\* C14: when the error that enters the after-phase is the handler's
\* residual and an after-stage's catch handles it, forward mode restarts at
\* index 0 of the after-list: `after` is run from the first stage on.
C14_ResumesAtFirstAfter ==
    \A h \in Pos : IsFail(h, "handler.catch") =>
      \A q \in (h + 1)..Len(trace) :
        ( /\ IsOk(q, "after.catch")
          /\ \A r \in (h + 1)..(q - 1) : IsFail(r, "after.catch") ) =>
            /\ q = Len(trace) =>
                   (pc = "run_afters" /\ err = None /\ off + i = 0)
            /\ q < Len(trace) =>
                   (trace[q + 1].op = "after" /\ trace[q + 1].idx = 0)

\* the second after-stage caught the handler's residual, and `after` then
\* ran on the first and on the second after-stage
C14_Witness ==
    \E h \in Pos :
        /\ IsFail(h, "handler.catch")
        /\ h + 4 <= Len(trace)
        /\ IsFail(h + 1, "after.catch")
        /\ IsOk(h + 2, "after.catch") /\ trace[h + 2].idx = 1
        /\ IsOk(h + 3, "after") /\ trace[h + 3].idx = 0
        /\ trace[h + 4].op = "after" /\ trace[h + 4].idx = 1

\* ----------------------------------------------------------------- C16
\* the catch operation of the phase of the forward operation op
C16_CatchOf(op) == IF op = "before" THEN "before.catch" ELSE "after.catch"
\* the length of the list of the phase of the forward operation op
C16_ListLen(op) == IF op = "before" THEN Len(befores) ELSE Len(afters)

\* C16: when stage i fails in `before` or `after`, the first catch run is
\* that of stage i itself, followed by those of stages i+1, i+2, ... in
\* order until one returns Ok or the list is exhausted; the catch of a
\* stage below i is not run for that error.
C16_CatchingStartsAtFailingStage ==
    \A p \in Pos : (IsFail(p, "before") \/ IsFail(p, "after")) =>
        LET c == C16_CatchOf(trace[p].op)
            n == C16_ListLen(trace[p].op)
        IN  /\ p = Len(trace) =>
                   (err = trace[p].out /\ off = trace[p].idx /\ i = 0)
            /\ \A r \in (p + 1)..Len(trace) :
                   (\A q \in (p + 1)..(r - 1) : IsFail(q, c)) =>
                       \/ CatchChained(c, p, r, trace[p].idx)
                       \/ /\ r - p - 1 = n - trace[p].idx
                          /\ trace[r].op # c

\* the first of two after-stages failed and the catch of both was run, its
\* own first
C16_Witness ==
    \E p \in Pos :
        /\ IsFail(p, "after") /\ trace[p].idx = 0
        /\ p + 2 <= Len(trace)
        /\ IsFail(p + 1, "after.catch") /\ trace[p + 1].idx = 0
        /\ trace[p + 2].op = "after.catch" /\ trace[p + 2].idx = 1

\* ----------------------------------------------------------------- C18
\* C18: in a call, once stage i has failed in forward mode and a catch of
\* the same phase has resolved the error, no stage below i has its `before`
\* (before-phase) or `after` (after-phase) run again in that phase.
C18_NeverBackBeforeFailingStage ==
    entry = "call" =>
        \A p \in Pos : trace[p].out \in Errors =>
          \A q \in (p + 1)..Len(trace) :
            /\ BeforeResolved(p, q) =>
                   \A r \in (q + 1)..Len(trace) :
                       trace[r].op = "before" => trace[r].idx >= trace[p].idx
            /\ AfterResolved(p, q) =>
                   \A r \in (q + 1)..Len(trace) :
                       trace[r].op = "after" => trace[r].idx >= trace[p].idx

\* the second after-stage failed, a catch resolved the error, and `after`
\* was run again, on the second stage
C18_Witness ==
    /\ entry = "call" /\ pc = "done"
    /\ \E p, q \in Pos :
        /\ AfterResolved(p, q) /\ trace[p].idx = 1
        /\ q < Len(trace) /\ trace[q + 1].op = "after"

\* ----------------------------------------------------------------- C19
\* every catch run so far behaved as the default catch, and the handler is
\* one that does not override catch
C19_AllDefault ==
    /\ handler = <<"F">>
    /\ \A p \in Pos :
        /\ trace[p].op = "before.catch" =>
               trace[p].out = BeforeDefaultCatch(trace[p].arg)
        /\ trace[p].op = "after.catch" =>
               trace[p].out = AfterDefaultCatch(trace[p].arg)

\* C19: when every stage and the handler use the default catch, the first
\* error E raised by a `before`, the handler's call or an `after` is the
\* last: only catch operations follow, each given E, the call ends within
\* one pass over the pipeline and returns Err(E).
C19_DefaultCatchPropagates ==
    (entry = "call" /\ C19_AllDefault) =>
        \A p \in Pos :
            (trace[p].op \in {"before", "handler.call", "after"}
             /\ trace[p].out \in Errors) =>
                /\ \A r \in (p + 1)..Len(trace) :
                       /\ trace[r].op \in
                              {"before.catch", "handler.catch", "after.catch"}
                       /\ trace[r].arg = trace[p].out
                       /\ trace[r].out = trace[p].out
                /\ err = trace[p].out
                /\ Len(trace) <= Len(befores) + Len(afters) + 2
                /\ pc = "done" =>
                       result = [res |-> NoResponse, err |-> trace[p].out]

\* a call with default catches whose second `before` failed with E2 and
\* that returned Err(E2)
C19_Witness ==
    /\ entry = "call" /\ C19_AllDefault /\ pc = "done"
    /\ Len(afters) = 2
    /\ \E p \in Pos : IsFail(p, "before") /\ trace[p].idx = 1
                      /\ trace[p].out = "E2" /\ result.err = "E2"

\* ----------------------------------------------------------------- C20
\* the phase an operation belongs to
C20_Phase(op) ==
    IF op \in {"before", "before.catch"} THEN 1
    ELSE IF op \in {"handler.call", "handler.catch"} THEN 2 ELSE 3

\* the positions at which the handler's method m was run
C20_HandlerRuns(m) == {p \in Pos : trace[p].op = m}

\* C20: in a dispatch every before-stage operation precedes every handler
\* operation, which precedes every after-stage operation; the handler's
\* call and its catch are each run at most once, the last handler operation
\* supplies the Response carried into the after-phase, and no before-stage
\* operation is run once the handle phase has begun.
C20_PhaseOrder ==
    /\ \A p \in 1..(Len(trace) - 1) :
           C20_Phase(trace[p].op) <= C20_Phase(trace[p + 1].op)
    /\ Cardinality(C20_HandlerRuns("handler.call")) <= 1
    /\ Cardinality(C20_HandlerRuns("handler.catch")) <= 1
    /\ pc = "run_handler_catch" => IsFail(Len(trace), "handler.call")
    /\ pc \in {"run_afters", "done"} =>
           \E h \in Pos :
               /\ C20_Phase(trace[h].op) = 2
               /\ \A q \in (h + 1)..Len(trace) : C20_Phase(trace[q].op) = 3
               /\ trace[h].res # NoResponse
               /\ res = trace[h].res
    /\ pc \in {"idle", "run_befores"} =>
           \A p \in Pos : C20_Phase(trace[p].op) = 1

\* a dispatch that ran both methods of the handler between before-stage
\* and after-stage operations
C20_Witness ==
    /\ pc = "done"
    /\ \E h \in Pos :
        /\ h > 1 /\ h + 2 <= Len(trace)
        /\ trace[h - 1].op = "before"
        /\ trace[h].op = "handler.call" /\ trace[h + 1].op = "handler.catch"
        /\ trace[h + 2].op = "after"

\* ----------------------------------------------------------------- C15
\* link on the ChainBuilder as it stands gives what link_before followed by
\* link_after gives: before at the end of befores, after at the end of
\* afters, the entries already there in their order, the handler untouched
C15_LinkIsBoth ==
    \A b \in BeforeIds, a \in AfterIds :
        LET c == ChainBuilder
            n == link(c, b, a)
        IN  /\ n = link_after(link_before(c, b), a)
            /\ n.befores = befores \o <<b>>
            /\ n.afters = afters \o <<a>>
            /\ n.handler = handler

\* a builder step that changes both lists appends one entry to each and
\* leaves the handler alone
C15_LinkStep ==
    (befores' # befores /\ afters' # afters) =>
        /\ \E b \in BeforeIds : befores' = befores \o <<b>>
        /\ \E a \in AfterIds : afters' = afters \o <<a>>
        /\ handler' = handler

\* C15: from any ChainBuilder, link((before, after)) produces the same
\* ChainBuilder as link_before(before) followed by link_after(after).
C15_LinkEquivalence == []C15_LinkIsBoth /\ [][C15_LinkStep]_vars

\* a ChainBuilder on which links have been made after earlier entries
C15_Witness ==
    /\ Len(befores) = 2 /\ Len(afters) = 2
    /\ befores[1] # befores[2] /\ afters[1] # afters[2]
    /\ Len(handler) > 1

\* ------------------------------------------- a dispatch running alone
\* the control state of a dispatch that has just been entered with the
\* error inc (None for ChainBuilder::call)
Entered(inc) ==
    [pc |-> "run_befores", off |-> 0, i |-> 0, err |-> inc, res |-> NoResponse]

\* the control state of a dispatch that ran an operation it does not run
Astray == [pc |-> "astray", off |-> 0, i |-> 0, err |-> None, res |-> NoResponse]

\* the control state d with the slice, index and error of n
Moved(d, n) == [d EXCEPT !.off = n.off, !.i = n.i, !.err = n.err]

\* the control state at the start of the after-phase
ToAfters(r, e) ==
    [pc |-> "run_afters", off |-> 0, i |-> 0, err |-> e, res |-> r]

\* the control state after a dispatch alone on the Chain, in control state
\* d, has run the operation o
After(d, o) ==
    IF d.pc = "run_befores" /\ d.i < Len(befores) - d.off THEN
        IF d.err = None THEN
            IF o.op = "before" /\ o.idx = d.off + d.i /\ o.arg = None
            THEN IF o.out = OkUnit THEN [d EXCEPT !.i = @ + 1]
                 ELSE Moved(d, RunBeforesOnErr(d.off, d.i, o.out))
            ELSE Astray
        ELSE
            IF o.op = "before.catch" /\ o.idx = d.off + d.i /\ o.arg = d.err
            THEN IF o.out = OkUnit THEN Moved(d, RunBeforesOnCaught(d.off, d.i))
                 ELSE Moved(d, RunBeforesOnRethrow(d.off, d.i, d.err, o.out))
            ELSE Astray
    ELSE IF d.pc = "run_befores"
            /\ HandlerMethod(RunBeforesResult(d.err)) = "call" THEN
        IF o.op = "handler.call" /\ o.arg = None
        THEN IF o.out = OkUnit THEN ToAfters(o.res, None)
             ELSE [d EXCEPT !.pc = "run_handler_catch", !.off = 0, !.i = 0,
                            !.err = o.out]
        ELSE Astray
    ELSE IF d.pc \in {"run_befores", "run_handler_catch"} THEN
        IF o.op = "handler.catch" /\ o.arg = d.err
        THEN LET n == RunHandlerCatch([res |-> o.res, out |-> o.out])
             IN  ToAfters(n.res, n.err)
        ELSE Astray
    ELSE IF d.pc = "run_afters" /\ d.i < Len(afters) - d.off THEN
        IF d.err = None THEN
            IF o.op = "after" /\ o.idx = d.off + d.i /\ o.arg = None
            THEN IF o.out = OkUnit THEN [d EXCEPT !.i = @ + 1]
                 ELSE Moved(d, RunAftersOnErr(d.off, d.i, o.out))
            ELSE Astray
        ELSE
            IF o.op = "after.catch" /\ o.idx = d.off + d.i /\ o.arg = d.err
            THEN IF o.out = OkUnit THEN Moved(d, RunAftersOnCaught(d.off, d.i))
                 ELSE Moved(d, RunAftersOnRethrow(d.off, d.i, d.err, o.out))
            ELSE Astray
    ELSE Astray

\* the control state after a dispatch alone on the Chain has run the
\* operations t from the control state d
RECURSIVE Replay(_, _)
Replay(d, t) == IF t = <<>> THEN d ELSE Replay(After(d, Head(t)), Tail(t))

\* the call with Frame f is where a call alone on the Chain is after the
\* same operations with the same outcomes, with the same result
Alone(f) ==
    IF f.pc \in {"idle", "absent"} THEN f.trace = <<>>
    ELSE LET d == Replay(Entered(f.incoming), f.trace)
         IN  /\ f.off = d.off /\ f.i = d.i /\ f.err = d.err /\ f.res = d.res
             /\ IF f.pc = "done"
                THEN /\ d.pc = "run_afters" /\ d.i = Len(afters) - d.off
                     /\ f.result =
                            IF f.entry = "call"
                            THEN CallReturn(RunAftersResult(d.res, d.err))
                            ELSE CatchReturn(RunAftersResult(d.res, d.err))
                ELSE f.pc = d.pc

\* ----------------------------------------------------------------- C12
\* each of the two calls is where it would be had it run alone
C12_Independent == Alone(Frame) /\ Alone(other)

\* C12: a dispatch never modifies the assembled Chain, and of two calls on
\* the same Chain, however their steps interleave, each runs the operations
\* and returns the result it would running alone.
C12_NoCrossCallLeak ==
    [][UNCHANGED <<befores, afters, handler>>]_vars /\ []C12_Independent

\* two calls on one Chain, both past their first operation, at different
\* places of the before-list and with different errors
C12_Witness ==
    /\ other # NoThread
    /\ pc = "run_befores" /\ other.pc = "run_befores"
    /\ trace # <<>> /\ other.trace # <<>>
    /\ off + i # other.off + other.i
    /\ err # other.err /\ err # None /\ other.err # None

\* ----------------------------------------------------------------- C17
\* the control state of the dispatch after its first k operations
C17_ControlAt(k) == Replay(Entered(incoming), SubSeq(trace, 1, k))

\* C17: every call and catch of the Chain returns after finitely many
\* operations whatever the stages return. The outcome of an operation is
\* free each time it is run, so this holds exactly when no dispatch comes
\* back to a control state it has already been in.
C17_Terminates ==
    pc # "idle" =>
        \A j, k \in 0..Len(trace) : j < k => C17_ControlAt(j) # C17_ControlAt(k)

====
